---- MODULE Spec2Model ----
(***************************************************************************)
(* Board model of the Minesweeper game in src/sapper.cpp: class Game, the  *)
(* cell content and cell state classes and DefaultBoardGenerator.          *)
(* Floats (dt, timeElapsed, explosionTimer) are counted in integer units   *)
(* of 0.1 s.                                                               *)
(***************************************************************************)
EXTENDS Integers, FiniteSets, Sequences, TLC

\* ------------------------------------------------------------------ bounds
MaxW == 4
MaxH == 3
MaxCells == 12
MaxMines == 1
MaxFlags == 2
MaxTime == 1
MaxDt == 1

\* explosionTimer = 0.2f, in units of 0.1 s
ExplosionTime == 2

\* ------------------------------------------------------------------ state
VARIABLES
    W, H, MINES,            \* Game::W, Game::H, Game::MINES
    gameOver, win, firstClick,
    explosion, explosionTimer,
    timerRunning, timeElapsed,
    field,                  \* Game::field, indexed by <<x, y>>
    pc, placed, safe,       \* position inside DefaultBoardGenerator::generate
    frames, calls, opens,   \* position inside Game::floodFill, see FloodIterate
    goal

vars == << W, H, MINES, gameOver, win, firstClick, explosion, explosionTimer,
           timerRunning, timeElapsed, field, pc, placed, safe,
           frames, calls, opens, goal >>

\* ------------------------------------------------------------------ content layer
MineContent == [kind |-> "Mine", n |-> -1]

NumberContent(n) == [kind |-> "Number", n |-> n]

EmptyContent == [kind |-> "Empty", n |-> 0]

isMine(c) == c.kind = "Mine"

number(c) == IF c.kind = "Mine" THEN -1 ELSE IF c.kind = "Number" THEN c.n ELSE 0

isEmpty(c) == IF c.kind = "Mine" THEN FALSE ELSE IF c.kind = "Number" THEN c.n = 0 ELSE TRUE

makeNumber(n) == IF n <= 0 THEN EmptyContent ELSE NumberContent(n)

\* ------------------------------------------------------------------ state layer
ClosedState == "Closed"

OpenedState == "Opened"

FlaggedState == "Flagged"

isOpen(s) == s = OpenedState

isFlagged(s) == s = FlaggedState

\* makeInitialCell that hands out cells in the Opened state
makeInitialCellOpened == [content |-> EmptyContent, state |-> OpenedState]

makeInitialCell == [content |-> EmptyContent, state |-> ClosedState]

\* ------------------------------------------------------------------ game record
Cells(w, h) == (0 .. w - 1) \X (0 .. h - 1)

G == [ W |-> W, H |-> H, MINES |-> MINES, gameOver |-> gameOver, win |-> win,
       firstClick |-> firstClick, explosion |-> explosion,
       explosionTimer |-> explosionTimer, timerRunning |-> timerRunning,
       timeElapsed |-> timeElapsed, field |-> field ]

Install(g) ==
    /\ W' = g.W
    /\ H' = g.H
    /\ MINES' = g.MINES
    /\ gameOver' = g.gameOver
    /\ win' = g.win
    /\ firstClick' = g.firstClick
    /\ explosion' = g.explosion
    /\ explosionTimer' = g.explosionTimer
    /\ timerRunning' = g.timerRunning
    /\ timeElapsed' = g.timeElapsed
    /\ field' = g.field

Install0(g) ==
    /\ W = g.W
    /\ H = g.H
    /\ MINES = g.MINES
    /\ gameOver = g.gameOver
    /\ win = g.win
    /\ firstClick = g.firstClick
    /\ explosion = g.explosion
    /\ explosionTimer = g.explosionTimer
    /\ timerRunning = g.timerRunning
    /\ timeElapsed = g.timeElapsed
    /\ field = g.field

\* resetField that leaves the explosion animation as it is
resetFieldKeepExplosion(g) ==
    [ g EXCEPT !.field = [c \in Cells(g.W, g.H) |-> makeInitialCell],
               !.gameOver = FALSE, !.win = FALSE, !.firstClick = TRUE,
               !.timerRunning = FALSE, !.timeElapsed = 0 ]

resetField(g) ==
    [ g EXCEPT !.field = [c \in Cells(g.W, g.H) |-> makeInitialCell],
               !.gameOver = FALSE, !.win = FALSE, !.firstClick = TRUE,
               !.explosion = FALSE, !.explosionTimer = 0,
               !.timerRunning = FALSE, !.timeElapsed = 0 ]

NewGame(w, h, mines) ==
    resetField([ W |-> w, H |-> h, MINES |-> mines, gameOver |-> FALSE, win |-> FALSE,
                 firstClick |-> TRUE, explosion |-> FALSE, explosionTimer |-> 0,
                 timerRunning |-> FALSE, timeElapsed |-> 0, field |-> << >> ])

\* ------------------------------------------------------------------ Game
\* update that clears the explosion when the countdown is at zero or below
updateClearsAtZero(g, dt) ==
    LET t  == g.explosionTimer - dt
        g1 == IF g.explosion
              THEN [g EXCEPT !.explosionTimer = t,
                             !.explosion = IF t <= 0 THEN FALSE ELSE TRUE]
              ELSE g
    IN  IF g1.timerRunning /\ ~g1.gameOver /\ ~g1.win
        THEN [g1 EXCEPT !.timeElapsed = g1.timeElapsed + dt]
        ELSE g1

\* update without the timerRunning test
updateTimerAlwaysRuns(g, dt) ==
    LET t  == g.explosionTimer - dt
        g1 == IF g.explosion
              THEN [g EXCEPT !.explosionTimer = t,
                             !.explosion = IF t < 0 THEN FALSE ELSE TRUE]
              ELSE g
    IN  IF ~g1.gameOver /\ ~g1.win
        THEN [g1 EXCEPT !.timeElapsed = g1.timeElapsed + dt]
        ELSE g1

update(g, dt) ==
    LET t  == g.explosionTimer - dt
        g1 == IF g.explosion
              THEN [g EXCEPT !.explosionTimer = t,
                             !.explosion = IF t < 0 THEN FALSE ELSE TRUE]
              ELSE g
    IN  IF g1.timerRunning /\ ~g1.gameOver /\ ~g1.win
        THEN [g1 EXCEPT !.timeElapsed = g1.timeElapsed + dt]
        ELSE g1

startTimerIfNeeded(g) ==
    IF ~g.timerRunning THEN [g EXCEPT !.timerRunning = TRUE, !.timeElapsed = 0] ELSE g

\* stopTimer that leaves the timer running
stopTimerKeepsRunning(g) == g

stopTimer(g) == [g EXCEPT !.timerRunning = FALSE]

\* the (dx, dy) pairs in the order of the nested loops: dy outer, dx inner, (0,0) skipped
Offsets == << <<-1, -1>>, <<0, -1>>, <<1, -1>>, <<-1, 0>>, <<1, 0>>,
              <<-1, 1>>, <<0, 1>>, <<1, 1>> >>

InBounds(g, nx, ny) == nx >= 0 /\ nx < g.W /\ ny >= 0 /\ ny < g.H

RECURSIVE countFrom(_, _, _, _)
countFrom(g, x, y, i) ==
    IF i > Len(Offsets) THEN 0
    ELSE LET nx == x + Offsets[i][1]
             ny == y + Offsets[i][2]
         IN  (IF InBounds(g, nx, ny) /\ isMine(g.field[<<nx, ny>>].content) THEN 1 ELSE 0)
             + countFrom(g, x, y, i + 1)

\* countMinesAround whose dx loop stops at dx < 1: the right-hand column is not counted
countMinesAroundShortLoop(g, x, y) ==
    Cardinality({i \in 1 .. Len(Offsets) :
        /\ Offsets[i][1] < 1
        /\ InBounds(g, x + Offsets[i][1], y + Offsets[i][2])
        /\ isMine(g.field[<<x + Offsets[i][1], y + Offsets[i][2]>>].content)})

countMinesAround(g, x, y) == countFrom(g, x, y, 1)

\* the flood-fill test without the isFlagged() conjunct
floodOpensIgnoringFlags(g, nx, ny) ==
    /\ InBounds(g, nx, ny)
    /\ ~isOpen(g.field[<<nx, ny>>].state)
    /\ ~isMine(g.field[<<nx, ny>>].content)

\* the test floodFill makes on the neighbour (nx, ny) before it opens it
floodOpens(g, nx, ny) ==
    /\ InBounds(g, nx, ny)
    /\ ~isOpen(g.field[<<nx, ny>>].state)
    /\ ~isFlagged(g.field[<<nx, ny>>].state)
    /\ ~isMine(g.field[<<nx, ny>>].content)

\* floodFill's recursion with its call stack made explicit: a frame <<x, y, i>> is a
\* call floodFill(x, y) whose loops stand at the i-th (dx, dy); the innermost call is
\* the last frame. Neighbours that fail the test are passed over without effect, so
\* the call continues at the first neighbour from i on that passes it.
RECURSIVE floodRun(_, _)
floodRun(g, stack) ==
    IF stack = << >> THEN g
    ELSE LET top  == stack[Len(stack)]
             rest == SubSeq(stack, 1, Len(stack) - 1)
             J    == {j \in top[3] .. Len(Offsets) :
                         floodOpens(g, top[1] + Offsets[j][1], top[2] + Offsets[j][2])}
         IN  IF J = {} THEN floodRun(g, rest)
             ELSE LET j  == CHOOSE k \in J : \A m \in J : k <= m
                      nx == top[1] + Offsets[j][1]
                      ny == top[2] + Offsets[j][2]
                      g1 == [g EXCEPT !.field[<<nx, ny>>].state = OpenedState]
                      back == Append(rest, <<top[1], top[2], j + 1>>)
                  IN  IF isEmpty(g1.field[<<nx, ny>>].content)
                      THEN floodRun(g1, Append(back, <<nx, ny, 1>>))
                      ELSE floodRun(g1, back)

\* floodFill without the recursive call: only the cells around (x, y) are opened
floodFillOneRing(g, x, y) ==
    [g EXCEPT !.field = [c \in Cells(g.W, g.H) |->
        IF /\ c[1] - x \in {-1, 0, 1}
           /\ c[2] - y \in {-1, 0, 1}
           /\ c # <<x, y>>
           /\ floodOpens(g, c[1], c[2])
        THEN [g.field[c] EXCEPT !.state = OpenedState]
        ELSE g.field[c]]]

floodFill(g, x, y) == floodRun(g, << <<x, y, 1>> >>)

\* triggerExplosion that starts the animation and opens the cells without ending the game
triggerExplosionGameGoesOn(g) ==
    stopTimer([g EXCEPT !.explosion = TRUE, !.explosionTimer = ExplosionTime,
                        !.field = [c \in Cells(g.W, g.H) |->
                                      [g.field[c] EXCEPT !.state = OpenedState]]])

\* triggerExplosion whose reveal-all loop passes over flagged cells
triggerExplosionKeepFlags(g) ==
    stopTimer([g EXCEPT !.explosion = TRUE, !.explosionTimer = ExplosionTime,
                        !.field = [c \in Cells(g.W, g.H) |->
                                      IF isFlagged(g.field[c].state) THEN g.field[c]
                                      ELSE [g.field[c] EXCEPT !.state = OpenedState]],
                        !.gameOver = TRUE])

\* triggerExplosion without the reveal-all loop
triggerExplosionNoReveal(g) ==
    stopTimer([g EXCEPT !.explosion = TRUE, !.explosionTimer = ExplosionTime,
                        !.gameOver = TRUE])

triggerExplosion(g) ==
    stopTimer([g EXCEPT !.explosion = TRUE, !.explosionTimer = ExplosionTime,
                        !.field = [c \in Cells(g.W, g.H) |->
                                      [g.field[c] EXCEPT !.state = OpenedState]],
                        !.gameOver = TRUE])

flagsCount(g) == Cardinality({c \in Cells(g.W, g.H) : isFlagged(g.field[c].state)})

\* checkWinOpen without the !isMine() test: every cell has to be open
checkWinOpenAllCells(g) ==
    IF \E c \in Cells(g.W, g.H) : ~isOpen(g.field[c].state)
    THEN g
    ELSE stopTimer([g EXCEPT !.win = TRUE])

checkWinOpen(g) ==
    IF \E c \in Cells(g.W, g.H) : ~isMine(g.field[c].content) /\ ~isOpen(g.field[c].state)
    THEN g
    ELSE stopTimer([g EXCEPT !.win = TRUE])

\* checkWinFlags that only counts the flags
checkWinFlagsCountOnly(g) ==
    IF flagsCount(g) = g.MINES
    THEN stopTimer([g EXCEPT !.win = TRUE])
    ELSE g

checkWinFlags(g) ==
    IF \E c \in Cells(g.W, g.H) : isFlagged(g.field[c].state) /\ ~isMine(g.field[c].content)
    THEN g
    ELSE IF flagsCount(g) = g.MINES
         THEN stopTimer([g EXCEPT !.win = TRUE])
         ELSE g

\* checkWin that forgets the flag-based check
checkWinOpenOnly(g) == checkWinOpen(g)

checkWin(g) ==
    LET g1 == checkWinOpen(g)
    IN  IF ~g1.win THEN checkWinFlags(g1) ELSE g1

\* ------------------------------------------------------------------ DefaultBoardGenerator
\* the clearing loop that puts back whole initial cells, the state with the content
clearContentAndState(g) ==
    [g EXCEPT !.field = [c \in Cells(g.W, g.H) |-> makeInitialCell]]

clearContent(g) ==
    [g EXCEPT !.field = [c \in Cells(g.W, g.H) |->
                            [g.field[c] EXCEPT !.content = makeNumber(0)]]]

Abs(a) == IF a < 0 THEN -a ELSE a

\* the safe zone shrunk to the clicked cell
inSafeZoneClickOnly(x, y, safeX, safeY) == x = safeX /\ y = safeY

\* the safe zone taken two cells wide around the click
inSafeZoneRadiusTwo(x, y, safeX, safeY) == Abs(x - safeX) <= 2 /\ Abs(y - safeY) <= 2

inSafeZone(x, y, safeX, safeY) == Abs(x - safeX) <= 1 /\ Abs(y - safeY) <= 1

\* the loop body without the test for a cell that already holds a mine
placeStepNoMineTest(g, n, x, y, safeX, safeY) ==
    IF inSafeZone(x, y, safeX, safeY) THEN [g |-> g, placed |-> n]
    ELSE [g |-> [g EXCEPT !.field[<<x, y>>].content = MineContent], placed |-> n + 1]

\* one iteration of the while loop with the candidate (x, y) drawn by rand():
\* the placed counter and the field after it
placeStep(g, n, x, y, safeX, safeY) ==
    IF isMine(g.field[<<x, y>>].content) THEN [g |-> g, placed |-> n]
    ELSE IF inSafeZone(x, y, safeX, safeY) THEN [g |-> g, placed |-> n]
    ELSE [g |-> [g EXCEPT !.field[<<x, y>>].content = MineContent], placed |-> n + 1]

computeNumbers(g) ==
    [g EXCEPT !.field = [c \in Cells(g.W, g.H) |->
        IF isMine(g.field[c].content) THEN g.field[c]
        ELSE [g.field[c] EXCEPT !.content = makeNumber(countMinesAround(g, c[1], c[2]))]]]

\* the mine sets the while loop can exit with: it places one mine per accepted
\* candidate, on a cell that is no mine yet and outside the safe zone, until
\* placed = MINES; it never exits when fewer than MINES cells are acceptable
PlacementOutcomes(g, safeX, safeY) ==
    {S \in SUBSET {c \in Cells(g.W, g.H) : ~inSafeZone(c[1], c[2], safeX, safeY)} :
        Cardinality(S) = g.MINES}

\* generate with the loop's outcome given: clear, the mines, the numbers
generate(g, safeX, safeY, mines) ==
    LET g0 == clearContent(g)
        g1 == [g0 EXCEPT !.field = [c \in Cells(g.W, g.H) |->
                  IF c \in mines THEN [g0.field[c] EXCEPT !.content = MineContent]
                  ELSE g0.field[c]]]
    IN  computeNumbers(g1)

\* ------------------------------------------------------------------ Game, continued
\* revealFromState without the return after triggerExplosion()
revealFromStateNoReturn(g, x, y, mines) ==
    IF g.gameOver \/ g.win THEN g
    ELSE IF isOpen(g.field[<<x, y>>].state) \/ isFlagged(g.field[<<x, y>>].state) THEN g
    ELSE LET g1 == IF g.firstClick
                   THEN startTimerIfNeeded(
                            [generate(g, x, y, mines) EXCEPT !.firstClick = FALSE])
                   ELSE g
             g2 == [g1 EXCEPT !.field[<<x, y>>].state = OpenedState]
             g3 == IF isMine(g2.field[<<x, y>>].content) THEN triggerExplosion(g2) ELSE g2
         IN  checkWin(IF isEmpty(g3.field[<<x, y>>].content)
                      THEN floodFill(g3, x, y)
                      ELSE g3)

\* revealFromState that leaves firstClick set after generating
revealFromStateKeepsFirstClick(g, x, y, mines) ==
    IF g.gameOver \/ g.win THEN g
    ELSE IF isOpen(g.field[<<x, y>>].state) \/ isFlagged(g.field[<<x, y>>].state) THEN g
    ELSE LET g1 == IF g.firstClick
                   THEN startTimerIfNeeded(generate(g, x, y, mines))
                   ELSE g
             g2 == [g1 EXCEPT !.field[<<x, y>>].state = OpenedState]
         IN  IF isMine(g2.field[<<x, y>>].content) THEN triggerExplosion(g2)
             ELSE checkWin(IF isEmpty(g2.field[<<x, y>>].content)
                           THEN floodFill(g2, x, y)
                           ELSE g2)

revealFromState(g, x, y, mines) ==
    IF g.gameOver \/ g.win THEN g
    ELSE IF isOpen(g.field[<<x, y>>].state) \/ isFlagged(g.field[<<x, y>>].state) THEN g
    ELSE LET g1 == IF g.firstClick
                   THEN startTimerIfNeeded(
                            [generate(g, x, y, mines) EXCEPT !.firstClick = FALSE])
                   ELSE g
             g2 == [g1 EXCEPT !.field[<<x, y>>].state = OpenedState]
         IN  IF isMine(g2.field[<<x, y>>].content) THEN triggerExplosion(g2)
             ELSE checkWin(IF isEmpty(g2.field[<<x, y>>].content)
                           THEN floodFill(g2, x, y)
                           ELSE g2)

toggleFlagFromState(g, x, y) ==
    IF g.gameOver \/ g.win THEN g
    ELSE IF isOpen(g.field[<<x, y>>].state) THEN g
    ELSE checkWin([g EXCEPT !.field[<<x, y>>].state =
                      IF isFlagged(g.field[<<x, y>>].state) THEN ClosedState
                      ELSE FlaggedState])

\* ------------------------------------------------------------------ state dispatch
ClosedOnLeftClick(g, x, y, mines) == revealFromState(g, x, y, mines)

ClosedOnRightClick(g, x, y) == toggleFlagFromState(g, x, y)

OpenedOnLeftClick(g, x, y) == g

OpenedOnRightClick(g, x, y) == g

\* FlaggedState::onLeftClick that opens the cell
FlaggedOnLeftClickOpens(g, x, y) == [g EXCEPT !.field[<<x, y>>].state = OpenedState]

FlaggedOnLeftClick(g, x, y) == g

\* FlaggedState::onRightClick with the empty body of OpenedState::onRightClick
FlaggedOnRightClickEmpty(g, x, y) == g

FlaggedOnRightClick(g, x, y) == [g EXCEPT !.field[<<x, y>>].state = ClosedState]

leftClickCell(g, x, y, mines) ==
    IF g.field[<<x, y>>].state = ClosedState THEN ClosedOnLeftClick(g, x, y, mines)
    ELSE IF g.field[<<x, y>>].state = OpenedState THEN OpenedOnLeftClick(g, x, y)
    ELSE FlaggedOnLeftClick(g, x, y)

rightClickCell(g, x, y) ==
    IF g.field[<<x, y>>].state = ClosedState THEN ClosedOnRightClick(g, x, y)
    ELSE IF g.field[<<x, y>>].state = OpenedState THEN OpenedOnRightClick(g, x, y)
    ELSE FlaggedOnRightClick(g, x, y)

\* whether leftClickCell(x, y) runs the generator
Generates(g, x, y) ==
    /\ g.field[<<x, y>>].state = ClosedState
    /\ ~(g.gameOver \/ g.win)
    /\ g.firstClick

\* ------------------------------------------------------------------ the session
\* no floodFill call is running: no frame on the call stack, nothing counted
NoGoal == [W |-> 0]

NoFlood == frames = << >> /\ calls = 0 /\ opens = << >> /\ goal = NoGoal

FloodIdle == UNCHANGED <<frames, calls, opens, goal>>

\* the sessions checked: boards on which the 3x3 safe zone fits, with a mine count
\* within 0 .. W*H - 9
GenBoards ==
    {b \in (3 .. MaxW) \X (3 .. MaxH) \X (0 .. MaxCells) :
        b[1] * b[2] <= MaxCells /\ b[3] <= b[1] * b[2] - 9}

Boards == {b \in GenBoards : b[3] <= MaxMines}

Init ==
    /\ \E b \in Boards : Install0(NewGame(b[1], b[2], b[3]))
    /\ pc = "idle"
    /\ placed = 0
    /\ safe = <<0, 0>>
    /\ NoFlood

GenIdle == pc = "idle" /\ UNCHANGED <<pc, placed, safe>> /\ FloodIdle

LeftClick(x, y) ==
    /\ GenIdle
    /\ IF Generates(G, x, y)
       THEN \E mines \in PlacementOutcomes(G, x, y) :
                Install(leftClickCell(G, x, y, mines))
       ELSE Install(leftClickCell(G, x, y, {}))

RightClick(x, y) ==
    /\ GenIdle
    /\ field[<<x, y>>].state = ClosedState => flagsCount(G) < MaxFlags
    /\ Install(rightClickCell(G, x, y))

Tick(dt) ==
    /\ GenIdle
    /\ (timerRunning /\ ~gameOver /\ ~win) => timeElapsed + dt <= MaxTime
    /\ Install(update(G, dt))

Reset ==
    /\ GenIdle
    /\ Install(resetField(G))

Next ==
    \/ \E c \in Cells(W, H) : LeftClick(c[1], c[2])
    \/ \E c \in Cells(W, H) : RightClick(c[1], c[2])
    \/ \E dt \in 0 .. MaxDt : Tick(dt)
    \/ Reset

Spec == Init /\ [][Next]_vars

\* ------------------------------------------------------------------ generate, step by step
\* DefaultBoardGenerator::generate as called by the first reveal, one action per
\* loop: the clearing loop, each iteration of the placement loop with the candidate
\* rand() draws, and the numbering loop after the placement loop has exited.
GenInit ==
    /\ \E b \in GenBoards : Install0(NewGame(b[1], b[2], b[3]))
    /\ pc = "idle"
    /\ placed = 0
    /\ safe = <<0, 0>>
    /\ NoFlood

GenEnter(x, y) ==
    /\ pc = "idle"
    /\ Generates(G, x, y)
    /\ Install(clearContent(G))
    /\ pc' = "placing"
    /\ placed' = 0
    /\ safe' = <<x, y>>
    /\ FloodIdle

GenDraw(x, y) ==
    /\ pc = "placing"
    /\ placed < MINES
    /\ LET r == placeStep(G, placed, x, y, safe[1], safe[2])
       IN  Install(r.g) /\ placed' = r.placed
    /\ UNCHANGED <<pc, safe>>
    /\ FloodIdle

GenNumbers ==
    /\ pc = "placing"
    /\ ~(placed < MINES)
    /\ Install(computeNumbers(G))
    /\ pc' = "generated"
    /\ UNCHANGED <<placed, safe>>
    /\ FloodIdle

GenNext ==
    \/ \E c \in Cells(W, H) : GenEnter(c[1], c[2])
    \/ \E c \in Cells(W, H) : GenDraw(c[1], c[2])
    \/ GenNumbers

SpecGen == GenInit /\ [][GenNext]_vars

\* ------------------------------------------------------------------ vocabulary of the properties
AllCells == Cells(W, H)

MineCells(g) == {c \in Cells(g.W, g.H) : g.field[c].content.kind = "Mine"}

FlaggedCells(g) == {c \in Cells(g.W, g.H) : g.field[c].state = "Flagged"}

OpenedCells(g) == {c \in Cells(g.W, g.H) : g.field[c].state = "Opened"}

ClosedCells(g) == {c \in Cells(g.W, g.H) : g.field[c].state = "Closed"}

Terminal(g) == g.gameOver \/ g.win

\* the cells of the board at Chebyshev distance exactly 1 from c
Neighbours(g, c) ==
    {d \in Cells(g.W, g.H) :
        /\ d # c
        /\ d[1] - c[1] \in {-1, 0, 1}
        /\ d[2] - c[2] \in {-1, 0, 1}}

\* brute-force scan: the mines among the neighbours
BruteCount(g, c) == Cardinality(Neighbours(g, c) \cap MineCells(g))

\* the mine sets with which the first reveal at c may generate (none needed otherwise)
Outcomes(g, c) ==
    IF Generates(g, c[1], c[2]) THEN PlacementOutcomes(g, c[1], c[2]) ELSE {{}}

\* the session after the generation a reveal at c performs, before any cell is opened
Generated(g, c, mines) ==
    IF Generates(g, c[1], c[2]) THEN generate(g, c[1], c[2], mines) ELSE g

AllNonMineOpen(g) ==
    \A c \in Cells(g.W, g.H) : g.field[c].content.kind # "Mine" => g.field[c].state = "Opened"

\* ------------------------------------------------------------------ generation
\* C1 (under SpecGen): when generate(sx, sy) has completed, exactly MINES cells hold
\* a mine and no cell (x, y) with |x - sx| <= 1 and |y - sy| <= 1 holds one,
\* whatever candidates the placement loop drew.
C1_MinesPlacedOutsideSafeZone ==
    pc = "generated" =>
        /\ Cardinality(MineCells(G)) = MINES
        /\ \A c \in AllCells :
              (c[1] - safe[1] \in {-1, 0, 1} /\ c[2] - safe[2] \in {-1, 0, 1})
                  => c \notin MineCells(G)

\* generation completed with the largest mine count the 4x3 board admits, the
\* click in the interior
C1_Witness == pc = "generated" /\ MINES = 3 /\ safe = <<1, 1>>

\* The mine set the stepwise loop exits with is one of PlacementOutcomes, the sets
\* the session specification draws the first reveal's board from (under SpecGen).
PlacementLoopExitsInOutcomes ==
    pc = "generated" => MineCells(G) \in PlacementOutcomes(G, safe[1], safe[2])

\* C2: once the board is generated, in every state every non-mine cell's numeric
\* value is the number of mines among its in-bounds neighbours, found by a scan
\* of the whole board, and the cell is Empty exactly when that number is 0.
C2_NumbersMatchBruteForce ==
    ~firstClick =>
        \A c \in AllCells :
            field[c].content.kind # "Mine" =>
                /\ number(field[c].content) = BruteCount(G, c)
                /\ isEmpty(field[c].content) <=> BruteCount(G, c) = 0
                /\ field[c].content.kind = "Empty" <=> BruteCount(G, c) = 0

\* a generated board with a mine in a corner's neighbourhood: the corner counts 1
\* among its three neighbours, an interior cell counts 1 among its eight, and a
\* cell away from the mine is Empty
C2_Witness ==
    /\ ~firstClick
    /\ W = 4 /\ H = 3
    /\ field[<<3, 1>>].content.kind = "Mine"
    /\ number(field[<<3, 2>>].content) = 1
    /\ number(field[<<2, 1>>].content) = 1
    /\ field[<<0, 0>>].content.kind = "Empty"

\* ------------------------------------------------------------------ loss and win
\* C3: a reveal of a Closed mine cell in a game that is not over ends with
\* gameOver, the timer stopped, win false and every cell Opened, the Flagged
\* cells included.
C3_MineRevealLoses ==
    \A c \in AllCells :
        (~Terminal(G) /\ field[c].state = "Closed" /\ field[c].content.kind = "Mine") =>
            LET g2 == leftClickCell(G, c[1], c[2], {})
            IN  /\ g2.gameOver
                /\ ~g2.timerRunning
                /\ ~g2.win
                /\ OpenedCells(g2) = AllCells

\* a running game with a Closed mine to reveal and a flag standing elsewhere
C3_Witness ==
    /\ ~Terminal(G)
    /\ timerRunning
    /\ \E c \in AllCells : field[c].state = "Closed" /\ field[c].content.kind = "Mine"
    /\ FlaggedCells(G) # {}

\* C4: no state with gameOver false has all non-mine cells Opened and win false or
\* the timer running; and an accepted reveal of a non-mine cell after which all
\* non-mine cells are Opened ends with win true and the timer stopped, whatever
\* the states of the mine cells.
C4_WinByOpen ==
    /\ (~gameOver /\ AllNonMineOpen(G)) => (win /\ ~timerRunning)
    /\ \A c \in AllCells : \A mines \in Outcomes(G, c) :
          LET g2 == leftClickCell(G, c[1], c[2], mines)
          IN  (/\ ~Terminal(G)
               /\ field[c].state = "Closed"
               /\ g2.field[c].content.kind # "Mine"
               /\ AllNonMineOpen(g2))
                  => (g2.win /\ ~g2.timerRunning /\ ~g2.gameOver)

\* a game won with every non-mine cell Opened while the mine carries a flag
C4_Witness ==
    /\ win /\ ~gameOver
    /\ AllNonMineOpen(G)
    /\ MineCells(G) # {}
    /\ MineCells(G) \subseteq FlaggedCells(G)
    /\ OpenedCells(G) # {}

\* C5: on a generated board in a game that is not over, a flag placed on a Closed
\* cell so that the Flagged cells become exactly the mine cells sets win and stops
\* the timer, also while non-mine cells are still Closed.
C5_WinByFlags ==
    \A c \in AllCells :
        (/\ ~firstClick
         /\ ~Terminal(G)
         /\ field[c].state = "Closed"
         /\ FlaggedCells(G) \cup {c} = MineCells(G))
            => LET g2 == rightClickCell(G, c[1], c[2])
               IN  /\ g2.win
                   /\ ~g2.timerRunning
                   /\ ~g2.gameOver
                   /\ FlaggedCells(g2) = MineCells(g2)

\* a running game in which the last mine is unflagged and Closed and a non-mine
\* cell is Closed as well
C5_Witness ==
    /\ ~firstClick
    /\ ~Terminal(G)
    /\ \E c \in ClosedCells(G) : FlaggedCells(G) \cup {c} = MineCells(G)
    /\ \E d \in ClosedCells(G) : field[d].content.kind # "Mine"

\* C6: gameOver and win are never both true.
C6_NotBothOverAndWon == ~(gameOver /\ win)

\* a lost game: every cell is Opened, the non-mine cells among them
C6_Witness == gameOver /\ AllNonMineOpen(G) /\ explosion

\* ------------------------------------------------------------------ terminal absorption
\* C7: once gameOver is true, a reveal or a flag toggle on any cell leaves every
\* cell's state and content and the gameOver and win flags as they are.
C7_LossAbsorbsInput ==
    gameOver =>
        \A c \in AllCells :
            LET l == leftClickCell(G, c[1], c[2], {})
                r == rightClickCell(G, c[1], c[2])
            IN  /\ l.field = field /\ l.gameOver = gameOver /\ l.win = win
                /\ r.field = field /\ r.gameOver = gameOver /\ r.win = win

\* a game lost on a board with a mine
C7_Witness == gameOver /\ MineCells(G) # {} /\ ~explosion

\* C8: once win is true, a reveal or a flag toggle on any cell changes no cell's
\* state; a cell Flagged when the game is won stays Flagged.
C8_WinAbsorbsInput ==
    win =>
        \A c \in AllCells :
            /\ leftClickCell(G, c[1], c[2], {}).field = field
            /\ rightClickCell(G, c[1], c[2]).field = field

\* ------------------------------------------------------------------ flag toggling
\* C9 as claimed: in a game that is not over, two flag toggles in a row on a Closed
\* cell give back the session as it was, also when the first toggle places the
\* last flag on the mines.
C9_DoubleToggleRestoresAlways ==
    \A c \in AllCells :
        (~Terminal(G) /\ field[c].state = "Closed") =>
            rightClickCell(rightClickCell(G, c[1], c[2]), c[1], c[2]) = G

\* the session after one flag toggle on c, and after two
Toggled(g, c) == rightClickCell(g, c[1], c[2])

ToggledTwice(g, c) == Toggled(Toggled(g, c), c)

\* C9 as amended: in a game that is not over, two flag toggles in a row on a Closed
\* cell give back the session as it was (that cell Closed, every other cell, all
\* contents, the flags and the timer unchanged), provided the first toggle does
\* not win the game; when it does, win is true and the timer stopped after the
\* second toggle as well.
C9_DoubleToggleRestores ==
    \A c \in ClosedCells(G) :
        ~Terminal(G) =>
            /\ Toggled(G, c).field[c].state = "Flagged"
            /\ ~Toggled(G, c).win => ToggledTwice(G, c) = G
            /\ Toggled(G, c).win =>
                  (ToggledTwice(G, c).win /\ ~ToggledTwice(G, c).timerRunning)

\* a running game on a generated board with a Closed mine whose flag would not
\* win, because a misplaced flag stands elsewhere
C9_Witness ==
    /\ ~Terminal(G)
    /\ ~firstClick
    /\ timerRunning
    /\ timeElapsed > 0
    /\ \E c \in ClosedCells(G) :
          /\ field[c].content.kind = "Mine"
          /\ ~rightClickCell(G, c[1], c[2]).win

\* ------------------------------------------------------------------ flood fill
\* d is one of the up to eight cells around c
Adjacent(c, d) ==
    /\ d # c
    /\ d[1] - c[1] \in {-1, 0, 1}
    /\ d[2] - c[2] \in {-1, 0, 1}

RECURSIVE Closure(_, _, _)
\* the least set that contains R and, with every cell of it that is in Through,
\* the cells of Into around that cell
Closure(R, Through, Into) ==
    LET more == {d \in Into \ R : \E e \in R \cap Through : Adjacent(e, d)}
    IN  IF more = {} THEN R ELSE Closure(R \cup more, Through, Into)

\* the cells a flood fill may open: no mine, not Flagged, not yet Opened
Openable(g) ==
    {d \in Cells(g.W, g.H) :
        /\ g.field[d].content.kind # "Mine"
        /\ g.field[d].state # "Flagged"
        /\ g.field[d].state # "Opened"}

EmptyCells(g) == {d \in Cells(g.W, g.H) : number(g.field[d].content) = 0}

\* the cells of into around some cell of ways
Around(ways, into) == {d \in into : \E e \in ways : Adjacent(e, d)}

\* the Empty cells that are not Flagged, Opened ones among them
Passable(g) == {d \in EmptyCells(g) : g.field[d].state # "Flagged"}

\* the region of C10 as claimed: c and the openable cells reached from c by steps
\* through Empty cells that are not Flagged, Opened ones among them
RegionThroughUnflagged(g, c) ==
    {c} \cup Around(Closure({c}, Passable(g), Passable(g)), Openable(g))

\* the region of C10 as amended: c and the openable cells reached from c by steps
\* through Empty cells that were themselves openable
RegionThroughOpenable(g, c) ==
    Closure({c}, EmptyCells(g) \cap (Openable(g) \cup {c}), Openable(g))

\* what an accepted reveal of the Closed Empty cell c did to the cell states, gb
\* being the session before any cell was opened and g2 the session after
FloodOpenedExactly(gb, g2, region) ==
    /\ OpenedCells(g2) \ OpenedCells(gb) = region
    /\ \A d \in Cells(gb.W, gb.H) \ region : g2.field[d].state = gb.field[d].state
    /\ \A d \in Cells(gb.W, gb.H) : g2.field[d].content = gb.field[d].content
    /\ region \cap MineCells(gb) = {}
    /\ region \cap FlaggedCells(gb) = {}

FloodCase(g, c, mines) ==
    /\ ~Terminal(g)
    /\ g.field[c].state = "Closed"
    /\ number(Generated(g, c, mines).field[c].content) = 0

\* C10 as claimed: an accepted reveal of a Closed Empty cell opens exactly that
\* cell and every cell, no mine, not Flagged and not yet Opened, reached from it
\* by 8-neighbour steps through Empty cells that are not Flagged.
C10_FloodRegionThroughUnflagged ==
    \A c \in ClosedCells(G) : \A mines \in Outcomes(G, c) :
        FloodCase(G, c, mines) =>
            FloodOpenedExactly(Generated(G, c, mines),
                               leftClickCell(G, c[1], c[2], mines),
                               RegionThroughUnflagged(Generated(G, c, mines), c))

\* C10 as amended: an accepted reveal of a Closed Empty cell opens exactly that
\* cell and every cell, no mine, not Flagged and not yet Opened, reached from it
\* by 8-neighbour steps through Empty cells that were themselves neither Flagged
\* nor Opened before the reveal; no mine and no Flagged cell is opened and no
\* other cell changes state. The region is a least fixed point, so the cells
\* opened do not depend on the order in which neighbours are visited.
C10_FloodRegionExact ==
    \A c \in ClosedCells(G) : \A mines \in Outcomes(G, c) :
        FloodCase(G, c, mines) =>
            FloodOpenedExactly(Generated(G, c, mines),
                               leftClickCell(G, c[1], c[2], mines),
                               RegionThroughOpenable(Generated(G, c, mines), c))

\* a running game with a Closed Empty cell whose region stops at a flag, at a
\* numbered cell and next to a mine, and does not cover the rest of the board
C10_Witness ==
    /\ ~Terminal(G)
    /\ ~firstClick
    /\ MineCells(G) # {}
    /\ FlaggedCells(G) # {}
    /\ \E c \in ClosedCells(G) :
          /\ number(field[c].content) = 0
          /\ field[c].content.kind # "Mine"
          /\ Cardinality(RegionThroughOpenable(G, c)) > 2
          /\ \E d \in RegionThroughOpenable(G, c) : number(field[d].content) > 0
          /\ \E d \in Neighbours(G, c) : field[d].state = "Flagged"
          /\ Openable(G) \ RegionThroughOpenable(G, c) # {}

\* ------------------------------------------------------------------ cell state transitions
\* the state of cell d is the same in g2 as in g, or d made one of the moves
\* Closed -> Opened, Closed -> Flagged, Flagged -> Closed
PlayMove(g, g2, d) ==
    \/ g2.field[d].state = g.field[d].state
    \/ g.field[d].state = "Closed" /\ g2.field[d].state = "Opened"
    \/ g.field[d].state = "Closed" /\ g2.field[d].state = "Flagged"
    \/ g.field[d].state = "Flagged" /\ g2.field[d].state = "Closed"

\* g2 is g with every cell Opened by the reveal-all of a loss
LossMove(g, g2) ==
    /\ ~g.gameOver
    /\ g2.gameOver
    /\ OpenedCells(g2) = Cells(g.W, g.H)

\* the mine sets a reveal at c would generate with, were it accepted while the
\* first click is pending whatever the state of c
AnyOutcome(g, c) == IF g.firstClick THEN PlacementOutcomes(g, c[1], c[2]) ELSE {{}}

\* the Opened cells of g are Opened in g2
OpenedStay(g, g2) == OpenedCells(g) \subseteq OpenedCells(g2)

\* what a reveal may have done to the cell states, l being the session after it:
\* it lost and opened every cell, or it opened Closed cells and nothing else
RevealMoves(g, l) ==
    /\ OpenedStay(g, l)
    /\ \/ LossMove(g, l)
       \/ \A d \in Cells(g.W, g.H) :
             /\ PlayMove(g, l, d)
             /\ l.field[d].state = "Flagged" <=> g.field[d].state = "Flagged"

\* what a flag toggle at c may have done to the cell states, r being the session
\* after it: at most c moved, between Closed and Flagged
ToggleMoves(g, r, c) ==
    /\ OpenedStay(g, r)
    /\ \A d \in Cells(g.W, g.H) :
          /\ PlayMove(g, r, d)
          /\ d # c => r.field[d].state = g.field[d].state
          /\ r.field[d].state = "Opened" <=> g.field[d].state = "Opened"

\* C11: a reveal, a flag toggle or a tick moves a cell's state only Closed -> Opened
\* (reveal, flood fill), Closed -> Flagged or Flagged -> Closed (flag toggle: only
\* the toggled cell), or from any state to Opened when the reveal loses and opens
\* every cell; a tick moves none. An Opened cell stays Opened, and a reveal on a
\* Flagged or an Opened cell gives back the session as it was in every field, also
\* while the first click is still pending.
C11_StateTransitions ==
    \A c \in AllCells :
        /\ \A mines \in Outcomes(G, c) :
              RevealMoves(G, leftClickCell(G, c[1], c[2], mines))
        /\ ToggleMoves(G, rightClickCell(G, c[1], c[2]), c)
        /\ \A dt \in 0 .. MaxDt : update(G, dt).field = field
        /\ field[c].state \in {"Flagged", "Opened"} =>
              \A mines \in AnyOutcome(G, c) : leftClickCell(G, c[1], c[2], mines) = G

\* a fresh session, the first click still pending, in which a flag stands: the
\* reveal of that Flagged cell would be the very first click
C11_Witness ==
    /\ firstClick
    /\ ~Terminal(G)
    /\ MINES > 0
    /\ FlaggedCells(G) # {}
    /\ ClosedCells(G) # {}

\* ------------------------------------------------------------------ reset
\* the session right after construction, field by field
FreshSession(w, h, mines) ==
    [ W |-> w, H |-> h, MINES |-> mines,
      gameOver |-> FALSE, win |-> FALSE, firstClick |-> TRUE,
      explosion |-> FALSE, explosionTimer |-> 0,
      timerRunning |-> FALSE, timeElapsed |-> 0,
      field |-> [c \in Cells(w, h) |->
                    [content |-> [kind |-> "Empty", n |-> 0], state |-> "Closed"]] ]

\* a reveal at any cell of the session r is accepted and generates: afterwards the
\* first click is no longer pending and the mines are the ones the generator drew
NextRevealGenerates(r) ==
    \A c \in Cells(r.W, r.H) :
        /\ Generates(r, c[1], c[2])
        /\ \A mines \in PlacementOutcomes(r, c[1], c[2]) :
              /\ MineCells(leftClickCell(r, c[1], c[2], mines)) = mines
              /\ ~leftClickCell(r, c[1], c[2], mines).firstClick

\* C12: in every reachable state (fresh, running, won, lost, explosion active) a
\* reset gives exactly the session a constructor call with the same W, H, MINES
\* gives: every cell Closed and Empty, gameOver, win, explosion and timerRunning
\* false, firstClick true, the explosion countdown and the elapsed time 0; and the
\* next reveal, at any cell, is accepted and generates a new board (the session
\* after a reset being in every field the fresh one, this is stated of the state
\* a reset leaves).
C12_ResetYieldsFresh ==
    /\ resetField(G) = FreshSession(W, H, MINES)
    /\ NewGame(W, H, MINES) = FreshSession(W, H, MINES)
    /\ G = FreshSession(W, H, MINES) => NextRevealGenerates(G)

\* a lost game on a board with a mine, the explosion still active, time elapsed
C12_Witness ==
    /\ gameOver
    /\ explosion
    /\ explosionTimer > 0
    /\ timeElapsed > 0
    /\ MineCells(G) # {}
    /\ OpenedCells(G) = AllCells

\* ------------------------------------------------------------------ the game timer
\* the session u is g after a tick of dt as far as the game timer goes: dt is added
\* to the elapsed time exactly when the timer runs in a game neither won nor over,
\* and nothing but the elapsed time and the explosion animation differs
TickEffect(g, u, dt) ==
    /\ u.timeElapsed = IF g.timerRunning /\ ~g.win /\ ~g.gameOver
                       THEN g.timeElapsed + dt
                       ELSE g.timeElapsed
    /\ u.field = g.field
    /\ u.gameOver = g.gameOver
    /\ u.win = g.win
    /\ u.firstClick = g.firstClick
    /\ u.timerRunning = g.timerRunning
    /\ u.W = g.W /\ u.H = g.H /\ u.MINES = g.MINES

\* C13: a tick of dt adds dt to the elapsed time if and only if the timer is
\* running and the game is neither won nor over, and changes no cell, nor gameOver,
\* win, firstClick or timerRunning; the elapsed time is 0 while the first click is
\* pending; and once the game is won or lost no tick, reveal or flag toggle changes
\* the elapsed time.
C13_TickAccumulates ==
    /\ \A dt \in 0 .. MaxDt : TickEffect(G, update(G, dt), dt)
    /\ firstClick => timeElapsed = 0
    /\ Terminal(G) =>
          /\ \A dt \in 0 .. MaxDt : update(G, dt).timeElapsed = timeElapsed
          /\ \A c \in AllCells :
                /\ leftClickCell(G, c[1], c[2], {}).timeElapsed = timeElapsed
                /\ rightClickCell(G, c[1], c[2]).timeElapsed = timeElapsed

\* a game won after a tick has added to the elapsed time: the time stands frozen
C13_Witness ==
    /\ win
    /\ ~timerRunning
    /\ timeElapsed > 0
    /\ ClosedCells(G) # {}

\* ------------------------------------------------------------------ the explosion countdown
\* C14 as claimed: while the explosion is active a tick of dt decreases the
\* countdown by dt, and the tick that brings the countdown to exactly zero clears
\* the explosion flag.
C14_CountdownClearsAtZero ==
    explosion =>
        \A dt \in 0 .. MaxDt :
            /\ update(G, dt).explosionTimer = explosionTimer - dt
            /\ explosionTimer - dt = 0 => ~update(G, dt).explosion

\* the session with the main loop's frames: ticks with dt > 0 keep coming
SpecTicking == Spec /\ WF_vars(\E dt \in 1 .. MaxDt : Tick(dt))

\* what a tick of dt does to the explosion animation of g, u being the session
\* after it: an active countdown goes down by dt and the flag is cleared exactly
\* when the countdown has gone below zero; an inactive one is left alone
CountdownEffect(g, u, dt) ==
    IF g.explosion
    THEN /\ u.explosionTimer = g.explosionTimer - dt
         /\ u.explosion <=> g.explosionTimer - dt >= 0
    ELSE ~u.explosion /\ u.explosionTimer = g.explosionTimer

\* C14 as amended (under SpecTicking): while the explosion is active a tick of dt
\* decreases the countdown by dt and clears the explosion flag exactly when the
\* countdown goes below zero, so a tick that brings it to exactly zero leaves the
\* flag set; with ticks of dt > 0 coming, an active explosion is eventually
\* cleared; and the flag is set only by the step that loses the game.
C14_CountdownClearsBelowZero ==
    /\ [](\A dt \in 0 .. MaxDt : CountdownEffect(G, update(G, dt), dt))
    /\ explosion ~> ~explosion
    /\ [][(~explosion /\ explosion') => (~gameOver /\ gameOver')]_vars

\* a lost game whose countdown ticks have brought to exactly zero, the explosion
\* still active
C14_Witness ==
    /\ gameOver
    /\ explosion
    /\ explosionTimer = 0

\* ------------------------------------------------------------------ the 3x3 scenario
\* a session on a 3x3 board with one mine
ScenarioInit ==
    /\ Install0(NewGame(3, 3, 1))
    /\ pc = "idle"
    /\ placed = 0
    /\ safe = <<0, 0>>
    /\ NoFlood

SpecScenario == ScenarioInit /\ [][Next]_vars

\* the session r has the 3x3 board with the single mine at (2, 2), its eight other
\* cells Opened and (2, 2) not, the numbers 1 on the three cells around the mine
\* and 0 on the other five, and is won with the timer stopped
ScenarioResult(r) ==
    /\ MineCells(r) = {<<2, 2>>}
    /\ OpenedCells(r) = Cells(3, 3) \ {<<2, 2>>}
    /\ Cardinality(OpenedCells(r)) = 8
    /\ r.field[<<2, 2>>].state # "Opened"
    /\ \A c \in {<<1, 2>>, <<2, 1>>, <<1, 1>>} : number(r.field[c].content) = 1
    /\ \A c \in {<<0, 0>>, <<1, 0>>, <<2, 0>>, <<0, 1>>, <<0, 2>>} :
          number(r.field[c].content) = 0
    /\ r.win
    /\ ~r.gameOver
    /\ ~r.timerRunning

\* C15 (under SpecScenario): on the fresh 3x3 board with MINES = 1, the first
\* reveal at (0, 0), the generator placing the mine at (2, 2), opens exactly the
\* eight non-mine cells and not (2, 2); the numbers are 1 at (1, 2), (2, 1) and
\* (1, 1) and 0 at the other five; and the call ends with win true, gameOver false
\* and the timer stopped.
C15_Scenario3x3 ==
    G = FreshSession(3, 3, 1) =>
        /\ {<<2, 2>>} \in PlacementOutcomes(G, 0, 0)
        /\ ScenarioResult(leftClickCell(G, 0, 0, {<<2, 2>>}))

\* the state that reveal leaves, reached by the first click
C15_Witness ==
    /\ W = 3 /\ H = 3 /\ MINES = 1
    /\ ~firstClick
    /\ win
    /\ timeElapsed = 0
    /\ field[<<2, 2>>].content.kind = "Mine"
    /\ field[<<2, 2>>].state = "Closed"
    /\ OpenedCells(G) = AllCells \ {<<2, 2>>}

\* ------------------------------------------------------------------ termination of the placement loop
\* generate on every board, the mine count not held to W*H - 9: any count up to
\* the number of cells
GenBoardsUnchecked ==
    {b \in (3 .. MaxW) \X (3 .. MaxH) \X (0 .. MaxCells) :
        b[1] * b[2] <= MaxCells /\ b[3] <= b[1] * b[2]}

GenInitUnchecked ==
    /\ \E b \in GenBoardsUnchecked : Install0(NewGame(b[1], b[2], b[3]))
    /\ pc = "idle"
    /\ placed = 0
    /\ safe = <<0, 0>>
    /\ NoFlood

\* rand() keeps drawing every in-bounds cell, and the code after the loop runs
SpecGenFair ==
    /\ GenInitUnchecked
    /\ [][GenNext]_vars
    /\ \A c \in Cells(MaxW, MaxH) :
          WF_vars(InBounds(G, c[1], c[2]) /\ GenDraw(c[1], c[2]))
    /\ WF_vars(GenNumbers)

\* the cells of the board outside the safe zone around s, the zone cut at the edges
OutsideSafe(g, s) ==
    {c \in Cells(g.W, g.H) : c[1] - s[1] \notin {-1, 0, 1} \/ c[2] - s[2] \notin {-1, 0, 1}}

\* the candidates the loop accepts in its next iteration
Acceptable(g, n, s) ==
    {c \in Cells(g.W, g.H) : placeStep(g, n, c[1], c[2], s[1], s[2]).placed = n + 1}

\* C16 (under SpecGenFair): with MINES at most the number of cells outside the
\* safe zone, which MINES <= W*H - 9 ensures for every safe cell, each iteration of
\* the placement loop with placed < MINES has a candidate it accepts and, every
\* in-bounds cell being drawn again and again, the loop places MINES mines and
\* exits; with MINES above the number of cells outside the safe zone the loop
\* never exits: placed stays below MINES.
C16_PlacementTerminates ==
    /\ [](MINES <= W * H - 9 => MINES <= Cardinality(OutsideSafe(G, safe)))
    /\ []((pc = "placing" /\ placed < MINES /\ MINES <= Cardinality(OutsideSafe(G, safe)))
              => Acceptable(G, placed, safe) # {})
    /\ (pc = "placing" /\ MINES <= Cardinality(OutsideSafe(G, safe)))
          ~> (pc = "generated" /\ placed = MINES /\ Cardinality(MineCells(G)) = MINES)
    /\ []((pc # "idle" /\ MINES > Cardinality(OutsideSafe(G, safe)))
              => (pc = "placing" /\ placed < MINES))

\* the loop has exited on the 4x3 board with fewer than W*H - 9 mines asked for and
\* the click in the interior, where the whole 3x3 zone lies on the board
C16_Witness ==
    /\ pc = "generated"
    /\ W = 4 /\ H = 3
    /\ safe = <<1, 1>>
    /\ MINES = 2
    /\ MINES < W * H - 9
    /\ placed = MINES

\* ------------------------------------------------------------------ the win check after flag changes
\* C17 as claimed: in every state with a generated board and gameOver false in
\* which the Flagged cells are exactly the mine cells, win is true; and when the
\* mines are flagged together with one misplaced flag, the flag toggle that
\* removes the misplaced flag sets win.
C17_FlagsOnMinesMeanWin ==
    /\ (~firstClick /\ ~gameOver /\ FlaggedCells(G) = MineCells(G)) => win
    /\ \A c \in FlaggedCells(G) :
          (/\ ~firstClick
           /\ ~Terminal(G)
           /\ field[c].content.kind # "Mine"
           /\ FlaggedCells(G) \ {c} = MineCells(G))
              => rightClickCell(G, c[1], c[2]).win

\* ------------------------------------------------------------------ generation, once per session
\* the contents of the board, cell by cell
Contents(g) == [c \in Cells(g.W, g.H) |-> g.field[c].content]

\* the step is a reset
ResetStep == G' = resetField(G)

\* the step is the first accepted reveal: the first click was pending and is not
\* any more, a Closed cell has been Opened, and the board holds MINES mines, none
\* of them within distance 1 of that cell
FirstRevealStep ==
    /\ firstClick
    /\ ~firstClick'
    /\ \E c \in ClosedCells(G) :
          /\ field'[c].state = "Opened"
          /\ MineCells(G') \subseteq OutsideSafe(G, c)
    /\ Cardinality(MineCells(G')) = MINES

\* the step leaves the contents and the pending first click as they are
ContentsKeptStep ==
    /\ firstClick' = firstClick
    /\ Contents(G') = Contents(G)

\* the session g2 has the contents and the firstClick of g
BoardKept(g, g2) == g2.firstClick = g.firstClick /\ Contents(g2) = Contents(g)

\* C18: every step that changes a content or the pending first click is either a
\* reset or the first accepted reveal of the session, which generates the board
\* with the revealed cell as safe centre and clears firstClick; so after it no
\* reveal, flag toggle or tick changes a content, and firstClick stays false, until
\* a reset. While the first click is pending no flag toggle, no tick and no
\* reveal on a cell that is not Closed generates or clears firstClick, and a
\* reveal on a Closed cell does both.
C18_GeneratedOnce ==
    /\ [][ResetStep \/ FirstRevealStep \/ ContentsKeptStep]_vars
    /\ [](firstClick =>
            \A c \in AllCells :
                /\ rightClickCell(G, c[1], c[2]).firstClick
                /\ Contents(rightClickCell(G, c[1], c[2])) = Contents(G)
                /\ \A dt \in 0 .. MaxDt :
                      update(G, dt).firstClick /\ Contents(update(G, dt)) = Contents(G)
                /\ \A mines \in PlacementOutcomes(G, c[1], c[2]) :
                      IF field[c].state = "Closed" /\ ~Terminal(G)
                      THEN /\ ~leftClickCell(G, c[1], c[2], mines).firstClick
                           /\ MineCells(leftClickCell(G, c[1], c[2], mines)) = mines
                           /\ mines \subseteq OutsideSafe(G, c)
                      ELSE leftClickCell(G, c[1], c[2], mines) = G)
    /\ [](~firstClick =>
            \A c \in AllCells : BoardKept(G, leftClickCell(G, c[1], c[2], {})))

\* a running game on a generated board with a mine, with flags set and cells
\* still to reveal, some time after the first reveal
C18_Witness ==
    /\ ~firstClick
    /\ ~Terminal(G)
    /\ timeElapsed > 0
    /\ MineCells(G) # {}
    /\ FlaggedCells(G) # {}
    /\ \E c \in ClosedCells(G) : field[c].content.kind # "Mine"
    /\ OpenedCells(G) # {}

\* ------------------------------------------------------------------ misplaced flags
\* the Flagged cells of a generated board that hold no mine
MisplacedFlags(g) ==
    IF g.firstClick THEN {}
    ELSE {c \in Cells(g.W, g.H) : g.field[c].state = "Flagged" /\ g.field[c].content.kind # "Mine"}

\* the non-mine cells still Closed
ClosedNonMine(g) ==
    {c \in Cells(g.W, g.H) : g.field[c].state = "Closed" /\ g.field[c].content.kind # "Mine"}

RECURSIVE PlayOut(_)
\* the game played on from g to its end: the misplaced flags are removed by flag
\* toggles, one by one, then the Closed non-mine cells are revealed, one by one
PlayOut(g) ==
    IF Terminal(g) THEN g
    ELSE IF MisplacedFlags(g) # {}
    THEN LET c == CHOOSE c \in MisplacedFlags(g) : TRUE
         IN  PlayOut(rightClickCell(g, c[1], c[2]))
    ELSE IF ClosedNonMine(g) # {}
    THEN LET c == CHOOSE c \in ClosedNonMine(g) : TRUE
         IN  PlayOut(leftClickCell(g, c[1], c[2], {}))
    ELSE g

Won(g) == g.win /\ ~g.gameOver

\* the step that makes gameOver true opens every cell, a Closed mine among them
LossStep ==
    /\ OpenedCells(G') = AllCells
    /\ \E c \in ClosedCells(G) : field'[c].content.kind = "Mine"

\* C19: no flag toggle sets gameOver, and the step that sets it reveals a Closed
\* mine; no step from or to a state of a generated board in which a non-mine cell
\* is Flagged sets win; and from every such state of a game not yet over, removing
\* the misplaced flags and revealing the remaining non-mine cells wins the game.
C19_MisplacedFlagNotFatal ==
    /\ [](\A c \in AllCells : rightClickCell(G, c[1], c[2]).gameOver = gameOver)
    /\ [][(~gameOver /\ gameOver') => LossStep]_vars
    /\ [][(MisplacedFlags(G) # {} \/ MisplacedFlags(G') # {}) => (win' => win)]_vars
    /\ []((~Terminal(G) /\ MisplacedFlags(G) # {}) => Won(PlayOut(G)))

\* a running game in which every mine is flagged and a misplaced flag stands
\* beside: the flag-based check fails only because of the misplaced flag
C19_Witness ==
    /\ ~firstClick
    /\ ~Terminal(G)
    /\ MineCells(G) # {}
    /\ MineCells(G) \subseteq FlaggedCells(G)
    /\ MisplacedFlags(G) # {}
    /\ ClosedNonMine(G) # {}

\* ------------------------------------------------------------------ floodFill, step by step
\* Game::floodFill as called by revealFromState, one action per iteration of its
\* loops: frames is the call stack, a frame <<x, y, i>> being a call floodFill(x, y)
\* whose loops stand at the i-th (dx, dy); calls counts the calls of the running
\* fill, opens lists the cells it has opened, goal is what leftClickCell gives
\* for the reveal in one piece.
MaxFloodFlags == 1

\* revealFromState from the generation to the opening of the clicked cell
revealUpToFlood(g, x, y, mines) ==
    LET g1 == IF g.firstClick
              THEN startTimerIfNeeded(
                       [generate(g, x, y, mines) EXCEPT !.firstClick = FALSE])
              ELSE g
    IN  [g1 EXCEPT !.field[<<x, y>>].state = OpenedState]

\* whether leftClickCell(x, y) gets as far as the call floodFill(x, y)
EntersFlood(g, x, y, mines) ==
    /\ g.field[<<x, y>>].state = ClosedState
    /\ ~(g.gameOver \/ g.win)
    /\ ~isMine(revealUpToFlood(g, x, y, mines).field[<<x, y>>].content)
    /\ isEmpty(revealUpToFlood(g, x, y, mines).field[<<x, y>>].content)

FloodLeftClick(x, y) ==
    /\ pc = "idle"
    /\ \E mines \in Outcomes(G, <<x, y>>) :
          IF EntersFlood(G, x, y, mines)
          THEN /\ Install(revealUpToFlood(G, x, y, mines))
               /\ pc' = "flooding"
               /\ frames' = << <<x, y, 1>> >>
               /\ calls' = 1
               /\ opens' = << >>
               /\ goal' = leftClickCell(G, x, y, mines)
          ELSE /\ Install(leftClickCell(G, x, y, mines))
               /\ pc' = pc
               /\ FloodIdle
    /\ UNCHANGED <<placed, safe>>

FloodRightClick(x, y) ==
    /\ pc = "idle"
    /\ field[<<x, y>>].state = ClosedState => flagsCount(G) < MaxFloodFlags
    /\ Install(rightClickCell(G, x, y))
    /\ UNCHANGED <<pc, placed, safe>>
    /\ FloodIdle

\* the loop iteration whose test lacks the isOpen() conjunct
FloodIterateReopens ==
    /\ pc = "flooding"
    /\ frames # << >>
    /\ frames[Len(frames)][3] <= Len(Offsets)
    /\ LET top  == frames[Len(frames)]
           nx   == top[1] + Offsets[top[3]][1]
           ny   == top[2] + Offsets[top[3]][2]
           on   == [frames EXCEPT ![Len(frames)] = <<top[1], top[2], top[3] + 1>>]
       IN  IF /\ InBounds(G, nx, ny)
              /\ ~isFlagged(field[<<nx, ny>>].state)
              /\ ~isMine(field[<<nx, ny>>].content)
           THEN /\ Install([G EXCEPT !.field[<<nx, ny>>].state = OpenedState])
                /\ opens' = Append(opens, <<nx, ny>>)
                /\ IF isEmpty(field[<<nx, ny>>].content)
                   THEN frames' = Append(on, <<nx, ny, 1>>) /\ calls' = calls + 1
                   ELSE frames' = on /\ calls' = calls
           ELSE /\ Install(G)
                /\ frames' = on
                /\ UNCHANGED <<calls, opens>>
    /\ UNCHANGED <<pc, placed, safe, goal>>

\* one iteration of the loops of the innermost call: the test on the neighbour,
\* its opening, and the recursive call, which puts a new frame on the stack
FloodIterate ==
    /\ pc = "flooding"
    /\ frames # << >>
    /\ frames[Len(frames)][3] <= Len(Offsets)
    /\ LET top  == frames[Len(frames)]
           nx   == top[1] + Offsets[top[3]][1]
           ny   == top[2] + Offsets[top[3]][2]
           on   == [frames EXCEPT ![Len(frames)] = <<top[1], top[2], top[3] + 1>>]
       IN  IF floodOpens(G, nx, ny)
           THEN /\ Install([G EXCEPT !.field[<<nx, ny>>].state = OpenedState])
                /\ opens' = Append(opens, <<nx, ny>>)
                /\ IF isEmpty(field[<<nx, ny>>].content)
                   THEN frames' = Append(on, <<nx, ny, 1>>) /\ calls' = calls + 1
                   ELSE frames' = on /\ calls' = calls
           ELSE /\ Install(G)
                /\ frames' = on
                /\ UNCHANGED <<calls, opens>>
    /\ UNCHANGED <<pc, placed, safe, goal>>

\* the loops of the innermost call are through and it returns: to the call below
\* it, or the outermost call to revealFromState, which goes on to checkWin()
FloodReturn ==
    /\ pc = "flooding"
    /\ frames # << >>
    /\ frames[Len(frames)][3] > Len(Offsets)
    /\ IF Len(frames) > 1
       THEN /\ Install(G)
            /\ frames' = SubSeq(frames, 1, Len(frames) - 1)
            /\ UNCHANGED <<pc, calls, opens, goal>>
       ELSE /\ Install(checkWin(G))
            /\ pc' = "idle"
            /\ frames' = << >>
            /\ calls' = 0
            /\ opens' = << >>
            /\ goal' = NoGoal
    /\ UNCHANGED <<placed, safe>>

FloodNext ==
    \/ \E c \in Cells(W, H) : FloodLeftClick(c[1], c[2])
    \/ \E c \in Cells(W, H) : FloodRightClick(c[1], c[2])
    \/ FloodIterate
    \/ FloodReturn

\* a call that has been entered runs on
SpecFlood ==
    /\ Init
    /\ [][FloodNext]_vars
    /\ WF_vars(FloodIterate)
    /\ WF_vars(FloodReturn)

\* The fill run step by step ends in the session leftClickCell gives, which is
\* computed by floodFill in one piece (under SpecFlood).
FloodStepsAgreeWithFloodFill ==
    [][(pc = "flooding" /\ pc' = "idle") => G' = goal]_vars

\* the cells of the calls on the stack, the outermost first
FrameCell(k) == <<frames[k][1], frames[k][2]>>

OpensSet == {opens[k] : k \in 1 .. Len(opens)}

\* the fill is in a sound position: no cell opened twice, what it opened is
\* Opened and no mine, the calls are on Opened Empty cells, each call but the
\* outermost on a cell this fill has opened, and the counts are within the board
FloodSound ==
    /\ Cardinality(OpensSet) = Len(opens)
    /\ \A d \in OpensSet :
          field[d].state = "Opened" /\ field[d].content.kind # "Mine"
    /\ \A k \in 1 .. Len(frames) :
          /\ field[FrameCell(k)].state = "Opened"
          /\ field[FrameCell(k)].content.kind = "Empty"
    /\ \A k \in 2 .. Len(frames) : FrameCell(k) \in OpensSet
    /\ FrameCell(1) \notin OpensSet
    /\ calls <= Len(opens) + 1
    /\ Len(opens) + 1 <= W * H
    /\ calls <= W * H
    /\ Len(frames) <= calls

\* a step of the fill changes the state of at most one cell, from Closed to
\* Opened, the cell no mine; and a call is made on the cell that very step opened
FloodStepOpensClosed ==
    pc = "flooding" =>
        /\ \A d \in AllCells :
              field'[d].state # field[d].state =>
                  /\ field[d].state = "Closed"
                  /\ field'[d].state = "Opened"
                  /\ field[d].content.kind # "Mine"
                  /\ opens' = Append(opens, d)
        /\ Len(frames') > Len(frames) =>
              /\ calls' = calls + 1
              /\ Len(opens') = Len(opens) + 1
              /\ <<frames'[Len(frames')][1], frames'[Len(frames')][2]>> = opens'[Len(opens')]
              /\ field[opens'[Len(opens')]].state = "Closed"
        /\ FlaggedCells(G') = FlaggedCells(G)

\* C20 (under SpecFlood): a flood fill, on whatever board, mines, flags and opened
\* cells the session has reached, comes to its end; every recursive call is on a
\* cell that the step making the call has just turned from not Opened to Opened,
\* no cell is opened twice, the calls of one reveal number at most W*H, and no
\* call is on a Flagged cell, a mine cell or a cell that was Opened before.
C20_FloodFillTerminates ==
    /\ [](pc = "flooding" => FloodSound)
    /\ [][FloodStepOpensClosed]_vars
    /\ (pc = "flooding") ~> (pc = "idle")

\* a fill three calls deep on a board with a mine, next to a flag it has to pass by
C20_Witness ==
    /\ pc = "flooding"
    /\ Len(frames) >= 3
    /\ MineCells(G) # {}
    /\ \E d \in FlaggedCells(G) : Adjacent(FrameCell(Len(frames)), d)

\* ------------------------------------------------------------------ before generation
\* C21 as claimed: while the first click is pending every cell has Empty content
\* and is Closed.
C21_PendingAllClosedEmpty ==
    firstClick =>
        \A c \in AllCells :
            field[c].content.kind = "Empty" /\ field[c].state = "Closed"

\* C21 as amended: while the first click is pending every cell has Empty content
\* and is Closed or Flagged, never Opened, and the game is neither won nor over;
\* a flag toggle on a Closed cell is accepted then and makes the cell Flagged.
C21_PendingEmptyNotOpened ==
    firstClick =>
        /\ \A c \in AllCells :
              /\ field[c].content.kind = "Empty"
              /\ field[c].state \in {"Closed", "Flagged"}
              /\ field[c].state = "Closed" =>
                    /\ rightClickCell(G, c[1], c[2]).field[c].state = "Flagged"
                    /\ rightClickCell(G, c[1], c[2]).firstClick
        /\ ~Terminal(G)

\* the first click is pending and two cells carry a flag
C21_Witness ==
    /\ firstClick
    /\ Cardinality(FlaggedCells(G)) = 2
    /\ OpenedCells(G) = {}

\* ------------------------------------------------------------------ the first reveal
\* l is the session after the first accepted reveal, at c, of the session g: the
\* game is not lost, c is Opened and Empty with the number 0, every cell around c
\* that was not Flagged is Opened, and the Flagged ones are Flagged still
FirstRevealSafe(g, l, c) ==
    /\ ~l.gameOver
    /\ ~l.firstClick
    /\ l.field[c].state = "Opened"
    /\ l.field[c].content.kind = "Empty"
    /\ number(l.field[c].content) = 0
    /\ \A d \in Neighbours(g, c) :
          /\ l.field[d].content.kind # "Mine"
          /\ g.field[d].state # "Flagged" => l.field[d].state = "Opened"
          /\ g.field[d].state = "Flagged" => l.field[d].state = "Flagged"

\* C22: with 0 <= MINES <= W*H - 9, the first accepted reveal of a session, at
\* whatever Closed cell and whatever mines the generator places, does not lose:
\* afterwards gameOver is false, the clicked cell is Opened and Empty with the
\* number 0, and every in-bounds neighbour of it that was not Flagged is Opened.
C22_FirstRevealNeverLoses ==
    (firstClick /\ ~Terminal(G) /\ MINES >= 0 /\ MINES <= W * H - 9) =>
        \A c \in ClosedCells(G) : \A mines \in PlacementOutcomes(G, c[1], c[2]) :
            FirstRevealSafe(G, leftClickCell(G, c[1], c[2], mines), c)

\* the first click is pending on a board with a mine to place, and a Closed cell
\* has a Flagged cell beside it
C22_Witness ==
    /\ firstClick
    /\ MINES > 0
    /\ \E c \in ClosedCells(G) : \E d \in FlaggedCells(G) : Adjacent(c, d)

\* ------------------------------------------------------------------ the timer invariant
\* the step starts the timer: it is the first accepted reveal
TimerStartStep ==
    (~timerRunning /\ timerRunning') =>
        /\ firstClick
        /\ ~firstClick'
        /\ \E c \in ClosedCells(G) : field'[c].state = "Opened"

\* the step ends the game, by win or by loss: the timer is stopped after it
GameEndStep == (~Terminal(G) /\ Terminal(G')) => ~timerRunning'

\* C23: in every state the timer runs exactly when the first click is no longer
\* pending and the game is neither over nor won; the only step that starts it is
\* the first accepted reveal, so no flag toggle starts it and it is not started
\* again before a reset has made the first click pending again; and every step
\* into win or loss leaves it stopped.
C23_TimerInvariant ==
    /\ [](timerRunning <=> (~firstClick /\ ~gameOver /\ ~win))
    /\ [](~timerRunning =>
            \A c \in AllCells : ~rightClickCell(G, c[1], c[2]).timerRunning)
    /\ [][TimerStartStep]_vars
    /\ [][GameEndStep]_vars

\* a game won by its first reveal on a board without mines: the timer was
\* started and stopped within that call
C23_Witness ==
    /\ win
    /\ MINES = 0
    /\ ~timerRunning
    /\ timeElapsed = 0
    /\ FlaggedCells(G) = {}

\* ------------------------------------------------------------------ flags set before generation
\* the states of the board, cell by cell
States(g) == [c \in Cells(g.W, g.H) |-> g.field[c].state]

\* b is the session g generated for a first click at c with the mines drawn, and
\* l the session after that click: generation has changed no cell's state; the
\* Flagged cells are Flagged after the click and none of them is Opened; and the
\* click wins exactly when all non-mine cells are Opened or the Flagged cells are
\* exactly the mines
FlagsSurviveGeneration(g, b, l, mines) ==
    /\ States(b) = States(g)
    /\ MineCells(b) = mines
    /\ FlaggedCells(b) = FlaggedCells(g)
    /\ FlaggedCells(l) = FlaggedCells(g)
    /\ OpenedCells(l) \cap FlaggedCells(g) = {}
    /\ ~l.gameOver
    /\ l.win <=> (AllNonMineOpen(l) \/ FlaggedCells(g) = mines)

\* the Flagged cell d can be given a mine by the generation for a first click at
\* c exactly when it lies outside the safe zone around c and MINES > 0
FlagMayGetMine(g, c, d) ==
    (\E mines \in PlacementOutcomes(g, c[1], c[2]) : d \in mines)
        <=> (d \in OutsideSafe(g, c) /\ g.MINES > 0)

\* C24: the generation a first reveal performs changes contents only: every
\* cell's state is as before, so a cell Flagged before the first reveal is Flagged
\* after generation and after the reveal, gets a mine in some of the generator's
\* outcomes unless it lies in the safe zone, and is not opened by the first
\* click's flood fill; and the win check at the end of the first reveal counts
\* those flags: the reveal wins when they stand exactly on the mines.
C24_GenerationKeepsStates ==
    (firstClick /\ ~Terminal(G)) =>
        \A c \in ClosedCells(G) :
            /\ \A mines \in PlacementOutcomes(G, c[1], c[2]) :
                  FlagsSurviveGeneration(G, generate(G, c[1], c[2], mines),
                                         leftClickCell(G, c[1], c[2], mines), mines)
            /\ \A d \in FlaggedCells(G) : FlagMayGetMine(G, c, d)

\* the first click is pending and the one flag set stands where the generator can
\* put the one mine, so that the first reveal wins by flags while a non-mine cell
\* stays Closed
C24_Witness ==
    /\ firstClick
    /\ MINES = 1
    /\ \E c \in ClosedCells(G) :
          /\ FlaggedCells(G) \in PlacementOutcomes(G, c[1], c[2])
          /\ leftClickCell(G, c[1], c[2], FlaggedCells(G)).win
          /\ ~AllNonMineOpen(leftClickCell(G, c[1], c[2], FlaggedCells(G)))

\* ------------------------------------------------------------------ the lost game
\* C25: in every state, gameOver implies that every cell is Opened, so that no
\* flag is counted and the mines shown as remaining are MINES, and that the first
\* click is not pending; and an active explosion implies gameOver.
C25_LossStateInvariant ==
    /\ gameOver =>
          /\ \A c \in AllCells : field[c].state = "Opened"
          /\ flagsCount(G) = 0
          /\ MINES - flagsCount(G) = MINES
          /\ ~firstClick
    /\ explosion => gameOver

\* a game just lost, the explosion at its full countdown
C25_Witness ==
    /\ gameOver
    /\ explosion
    /\ explosionTimer = ExplosionTime
    /\ MineCells(G) # {}

====
